---- MODULE Spec2Model ----
(***************************************************************************)
(* State-machine model of the financialdataimporter package:              *)
(*   importer.py  YahooFinanceImporter                                     *)
(*   sources.py   YahooFinanceSource, AlphaVantageSource                   *)
(* The cache directories are the persistent state; every public method of  *)
(* the three adapters is one action.  Strings that the code interpolates   *)
(* into file names or parses as dates are sequences of one-character       *)
(* strings, so that concatenation and parsing are computed, not assumed.   *)
(***************************************************************************)
EXTENDS Naturals, Sequences, FiniteSets, TLC

VARIABLES
    inst,     \* adapter -> its cache_dir, or NoDir while not constructed
    dirs,     \* the directories that exist on disk
    files,    \* <<dir, file name>> -> file content, for the files on disk
    origin,   \* history: <<dir, file name>> -> the call that wrote the file
    last,     \* history: what the most recent call did and gave back
    calls     \* caller -> where its call in progress stands, and its locals

vars == <<inst, dirs, files, origin, last, calls>>

(***************************************************************************)
(* Bounds of the model.                                                    *)
(***************************************************************************)
\* how many different answers the provider may give for one price request
NumVersions == 1
\* how many files may refuse removal during one clear_cache()
MaxUnremovable == 1

(***************************************************************************)
(* Strings.                                                                *)
(***************************************************************************)
Digits == {"0", "1", "2", "3", "4", "5", "6", "7", "8", "9"}

DigitVal(c) ==
    CASE c = "0" -> 0 [] c = "1" -> 1 [] c = "2" -> 2 [] c = "3" -> 3
      [] c = "4" -> 4 [] c = "5" -> 5 [] c = "6" -> 6 [] c = "7" -> 7
      [] c = "8" -> 8 [] c = "9" -> 9

IsNumber(s) == Len(s) > 0 /\ \A i \in 1..Len(s) : s[i] \in Digits

RECURSIVE NumVal(_)
NumVal(s) ==
    IF Len(s) = 0 THEN 0
    ELSE 10 * NumVal(SubSeq(s, 1, Len(s) - 1)) + DigitVal(s[Len(s)])

\* the positions of the character c in s
Positions(s, c) == {i \in 1..Len(s) : s[i] = c}

UNDERSCORE == <<"_">>
EXT_CSV == <<".", "c", "s", "v">>
EXT_PKL == <<".", "p", "k", "l">>
FUNDAMENTALS == <<"f", "u", "n", "d", "a", "m", "e", "n", "t", "a", "l", "s">>
OPTION == <<"o", "p", "t", "i", "o", "n">>
HISTORY == <<"h", "i", "s", "t", "o", "r", "y">>
AV_PREFIX == <<"A", "V", "_">>

(***************************************************************************)
(* Dates: datetime.strptime(s, '%Y-%m-%d') and the comparisons of          *)
(* _validate_dates.  A parsed date is <<year, month, day>>.                *)
(***************************************************************************)
BadDate == <<>>

IsLeap(y) == (y % 4 = 0 /\ y % 100 # 0) \/ y % 400 = 0

DaysIn(y, m) ==
    IF m = 2 THEN (IF IsLeap(y) THEN 28 + 1 ELSE 28)
    ELSE IF m \in {4, 6, 9, 11} THEN 30 ELSE 31

\* strptime with '%Y-%m-%d': a four-digit year, then month and day of one or
\* two digits each, separated by '-', naming a day of the calendar.
Strptime(s) ==
    LET dash == Positions(s, "-")
    IN  IF Cardinality(dash) # 2 THEN BadDate
        ELSE LET p == CHOOSE i \in dash : \A j \in dash : i <= j
                 q == CHOOSE i \in dash : \A j \in dash : j <= i
                 ys == SubSeq(s, 1, p - 1)
                 ms == SubSeq(s, p + 1, q - 1)
                 ds == SubSeq(s, q + 1, Len(s))
             IN  IF /\ IsNumber(ys) /\ Len(ys) = 4
                    /\ IsNumber(ms) /\ Len(ms) <= 2
                    /\ IsNumber(ds) /\ Len(ds) <= 2
                    /\ NumVal(ys) >= 1
                    /\ NumVal(ms) \in 1..12
                    /\ NumVal(ds) \in 1..DaysIn(NumVal(ys), NumVal(ms))
                 THEN <<NumVal(ys), NumVal(ms), NumVal(ds)>>
                 ELSE BadDate

\* d1 > d2 on parsed dates
DateAfter(d1, d2) ==
    \/ d1[1] > d2[1]
    \/ d1[1] = d2[1] /\ d1[2] > d2[2]
    \/ d1[1] = d2[1] /\ d1[2] = d2[2] /\ d1[3] > d2[3]

\* the calendar day of datetime.now()
Today == <<2025, 6, 15>>

\* _validate_dates: the error it raises, or "ok" when it returns
ValidateDates(start_date, end_date) ==
    LET start_dt == Strptime(start_date)
        end_dt == Strptime(end_date)
    IN  IF start_dt = BadDate \/ end_dt = BadDate THEN "InvalidRange"
        ELSE IF DateAfter(start_dt, end_dt) THEN "InvalidRange"
        ELSE IF DateAfter(start_dt, Today) THEN "InvalidRange"
        ELSE "ok"

(***************************************************************************)
(* Inputs of the calls.                                                    *)
(***************************************************************************)
ACME == <<"A", "C", "M", "E">>     \* a ticker the providers know
ZZZZ == <<"Z", "Z", "Z", "Z">>     \* an unknown / delisted ticker
Tickers == {ACME, ZZZZ}
KnownTickers == {ACME}

D_2024_01_01 == <<"2", "0", "2", "4", "-", "0", "1", "-", "0", "1">>
D_2024_01_31 == <<"2", "0", "2", "4", "-", "0", "1", "-", "3", "1">>
D_2999_01_01 == <<"2", "9", "9", "9", "-", "0", "1", "-", "0", "1">>
D_2024_02_30 == <<"2", "0", "2", "4", "-", "0", "2", "-", "3", "0">>

\* (start_date, end_date) pairs: a valid range, start after end, start in the
\* future, and a date that is no day of the calendar
DateRanges ==
    { <<D_2024_01_01, D_2024_01_31>>,
      <<D_2024_01_31, D_2024_01_01>>,
      <<D_2999_01_01, D_2999_01_01>>,
      <<D_2024_02_30, D_2024_01_31>> }

\* the same, and a second valid range inside the first
AvDateRanges == DateRanges \cup { <<D_2024_01_31, D_2024_01_31>> }

\* (ticker, start_date, end_date) of the price requests: the known ticker
\* with every range, the unknown ticker with the valid one
PriceRequests ==
    {<<ACME, r[1], r[2]>> : r \in DateRanges}
        \cup {<<ZZZZ, D_2024_01_01, D_2024_01_31>>}

AvPriceRequests ==
    {<<ACME, r[1], r[2]>> : r \in AvDateRanges}
        \cup {<<ZZZZ, D_2024_01_01, D_2024_01_31>>}

E_2024_06_21 == <<"2", "0", "2", "4", "-", "0", "6", "-", "2", "1">>
E_2024_07_19 == <<"2", "0", "2", "4", "-", "0", "7", "-", "1", "9">>
Expirations == {E_2024_06_21, E_2024_07_19}

NoneArg == "<None>"
ApiKeys == {NoneArg, "", "KEY"}

\* two threads or processes that use the same YahooFinanceImporter
Callers == {"caller1", "caller2"}

YFI == "YahooFinanceImporter"
YFS == "YahooFinanceSource"
AVS == "AlphaVantageSource"
Adapters == {YFI, YFS, AVS}

NoDir == "<unset>"

(***************************************************************************)
(* Values the calls return and the files hold.                             *)
(***************************************************************************)
None == [kind |-> "None"]
EmptyDict == [kind |-> "dict", of |-> "empty"]
EmptyTuple == [kind |-> "tuple", items |-> <<>>]

\* a DataFrame of prices: rows is <<first date, last date>>, <<>> when empty
Frame(ticker, rows, ver, cols) ==
    [kind |-> "frame", ticker |-> ticker, rows |-> rows, ver |-> ver, cols |-> cols]

IsEmptyFrame(data) == data.rows = <<>>

\* DataFrame.to_csv: a frame with MultiIndex columns is written with one
\* header line per level
ToCsv(data) ==
    [fmt |-> "csv",
     header |-> IF data.cols = "multi" THEN "two_lines" ELSE data.cols,
     ticker |-> data.ticker, rows |-> data.rows, ver |-> data.ver]

\* pd.read_csv(path, index_col=0, parse_dates=True): one header line is read
\* as the column names; further header lines end up among the rows
ReadCsv(content) ==
    IF content.header = "two_lines"
    THEN Frame(content.ticker, content.rows, content.ver, "mangled")
    ELSE Frame(content.ticker, content.rows, content.ver, content.header)

PickleDump(obj) == [fmt |-> "pkl", obj |-> obj]
PickleLoad(content) == content.obj

\* a file that open(path, 'wb') or to_csv(path) has created and nothing was
\* written to yet
EmptyFile == [fmt |-> "empty"]

\* pd.read_csv raises EmptyDataError and pickle.load raises EOFError on a
\* file of no bytes
Deserializable(content) == content.fmt # "empty"

(***************************************************************************)
(* The remote providers.  They are outside the repository: each operator   *)
(* gives the set of answers a call may get.  Raised stands for any         *)
(* exception of the client library or the network.                         *)
(***************************************************************************)
Raised == [kind |-> "raised"]

HistFrom == <<2020, 1, 2>>     \* first day the providers have prices for

MaxDate(d1, d2) == IF DateAfter(d1, d2) THEN d1 ELSE d2
MinDate(d1, d2) == IF DateAfter(d1, d2) THEN d2 ELSE d1

\* the days of [d1, d2] the provider has prices for
Clip(d1, d2) ==
    LET lo == MaxDate(d1, HistFrom)
        hi == MinDate(d2, Today)
    IN  IF DateAfter(lo, hi) THEN <<>> ELSE <<lo, hi>>

\* yf.download(ticker, start=start_date, end=end_date, auto_adjust=True)
YfDownload(ticker, start_date, end_date) ==
    LET s == Strptime(start_date)
        e == Strptime(end_date)
        rows == IF s = BadDate \/ e = BadDate THEN <<>> ELSE Clip(s, e)
    IN  {Raised, Frame(ticker, <<>>, 1, "multi")}
        \cup (IF ticker \in KnownTickers /\ rows # <<>>
              THEN {Frame(ticker, rows, v, c) :
                        v \in 1..NumVersions, c \in {"multi", "provider_names"}}
              ELSE {})

\* yf.Ticker(ticker).info
YfInfo(ticker) ==
    {Raised} \cup (IF ticker \in KnownTickers
                   THEN {[kind |-> "dict", of |-> "info", ticker |-> ticker]}
                   ELSE {})

\* the expiration dates the provider lists for a ticker
Listed(ticker) == IF ticker \in KnownTickers THEN <<E_2024_06_21>> ELSE <<>>

\* yf.Ticker(ticker).options
YfOptions(ticker) ==
    {Raised, [kind |-> "tuple", items |-> Listed(ticker)]}

\* yf.Ticker(ticker).option_chain(expiration_date)
YfOptionChain(ticker, expiration_date) ==
    {Raised} \cup (IF \E i \in 1..Len(Listed(ticker)) : Listed(ticker)[i] = expiration_date
                   THEN {[kind |-> "option_chain", ticker |-> ticker,
                          expiration |-> expiration_date]}
                   ELSE {})

\* TimeSeries.get_daily_adjusted(symbol=ticker, outputsize='full')
AvDailyAdjusted(ticker) ==
    {Raised} \cup (IF ticker \in KnownTickers
                   THEN {Frame(ticker, <<HistFrom, Today>>, v, "av_numbered") :
                            v \in 1..NumVersions}
                   ELSE {})

\* FundamentalData.get_company_overview(symbol=ticker)
AvCompanyOverview(ticker) ==
    {Raised} \cup (IF ticker \in KnownTickers
                   THEN {[kind |-> "overview", ticker |-> ticker]}
                   ELSE {})

(***************************************************************************)
(* Cache file names, as the f-strings build them.                          *)
(***************************************************************************)
\* f"{ticker}_{start_date}_{end_date}.csv"
PriceFileName(ticker, start_date, end_date) ==
    ticker \o UNDERSCORE \o start_date \o UNDERSCORE \o end_date \o EXT_CSV

\* f"{ticker}_fundamentals.pkl"
FundamentalsFileName(ticker) ==
    ticker \o UNDERSCORE \o FUNDAMENTALS \o EXT_PKL

\* f"{ticker}_option_{expiration_date}.pkl"
OptionFileName(ticker, expiration_date) ==
    ticker \o UNDERSCORE \o OPTION \o UNDERSCORE \o expiration_date \o EXT_PKL

\* f"AV_{ticker}_history.pkl"
AvHistoryFileName(ticker, start_date, end_date) ==
    AV_PREFIX \o ticker \o UNDERSCORE \o HISTORY \o EXT_PKL

\* f"AV_{ticker}_fundamentals.pkl"
AvFundamentalsFileName(ticker) ==
    AV_PREFIX \o ticker \o UNDERSCORE \o FUNDAMENTALS \o EXT_PKL

\* os.path.join(self.cache_dir, filename)
CachePath(a, filename) == <<inst[a], filename>>

\* os.path.exists(cache_path)
Exists(path) == path \in DOMAIN files

(***************************************************************************)
(* Bookkeeping shared by the actions.                                      *)
(***************************************************************************)
NoFiles == [p \in {} |-> None]

\* the file system after open(path, 'wb') / to_csv(path) wrote content
WriteTo(f, path, content) ==
    [p \in DOMAIN f \cup {path} |-> IF p = path THEN content ELSE f[p]]

\* the file system after os.remove of every path in gone
RemoveFrom(f, gone) == [p \in DOMAIN f \ gone |-> f[p]]

NoPath == <<NoDir, <<>>>>

\* the record of one call: which file it looked for and whether it was there,
\* how many remote calls it made and what they gave for the request ("none"
\* without a remote call, "raised", "empty" for no rows, or "data"), whether
\* it wrote the file, and how it ended
Call(a, op, args, path, probed, hit, remote, answer, wrote, outcome, value, exc) ==
    [adapter |-> a, op |-> op, args |-> args, path |-> path, probed |-> probed,
     hit |-> hit, remote |-> remote, answer |-> answer, wrote |-> wrote,
     outcome |-> outcome, value |-> value, exc |-> exc,
     deleted |-> 0, failed |-> FALSE, unremovable |-> {}]

\* a call that found its cache file and returned what it read from it; no
\* try stands around the read, so what the read raises reaches the caller
CacheHit(a, op, args, path, value) ==
    /\ last' = IF Deserializable(files[path])
               THEN Call(a, op, args, path, TRUE, TRUE, 0, "none", FALSE,
                         "returned", value, "")
               ELSE Call(a, op, args, path, TRUE, TRUE, 0, "none", FALSE,
                         "raised", None, "DeserializeError")
    /\ UNCHANGED <<inst, dirs, files, origin, calls>>

\* a call that missed, fetched, wrote content to its cache file and returned value
MissStored(a, op, args, path, content, value) ==
    /\ files' = WriteTo(files, path, content)
    /\ origin' = WriteTo(origin, path,
                         [adapter |-> a, op |-> op, args |-> args, value |-> value])
    /\ last' = Call(a, op, args, path, TRUE, FALSE, 1, "data", TRUE, "returned", value, "")
    /\ UNCHANGED <<inst, dirs, calls>>

\* variant of MissReturned: the cache file was opened for writing before the
\* remote call, so the value given back instead of the failed fetch is left
\* in it
MissReturned_leaves_file(a, op, args, path, probed, answer, value) ==
    /\ files' = IF probed THEN WriteTo(files, path, PickleDump(value)) ELSE files
    /\ origin' = IF probed
                 THEN WriteTo(origin, path,
                              [adapter |-> a, op |-> op, args |-> args, value |-> value])
                 ELSE origin
    /\ last' = Call(a, op, args, path, probed, FALSE, 1, answer, probed, "returned", value, "")
    /\ UNCHANGED <<inst, dirs, calls>>

\* a call that missed, made its remote call, wrote nothing and returned value
MissReturned(a, op, args, path, probed, answer, value) ==
    /\ last' = Call(a, op, args, path, probed, FALSE, 1, answer, FALSE, "returned", value, "")
    /\ UNCHANGED <<inst, dirs, files, origin, calls>>

\* variant of MissRaised: the cache file is written before the result of
\* the remote call is looked at, so the failure is stored
MissRaised_stores_failure(a, op, args, path, answer, exc) ==
    /\ files' = WriteTo(files, path, PickleDump(None))
    /\ origin' = WriteTo(origin, path,
                         [adapter |-> a, op |-> op, args |-> args, value |-> None])
    /\ last' = Call(a, op, args, path, TRUE, FALSE, 1, answer, TRUE, "raised", None, exc)
    /\ UNCHANGED <<inst, dirs, calls>>

\* a call that missed, made its remote call, wrote nothing and raised exc
MissRaised(a, op, args, path, answer, exc) ==
    /\ last' = Call(a, op, args, path, TRUE, FALSE, 1, answer, FALSE, "raised", None, exc)
    /\ UNCHANGED <<inst, dirs, files, origin, calls>>

\* a caller with no call in progress
NoCall ==
    [pc |-> "idle", op |-> "none", args |-> <<>>, path |-> NoPath, found |-> FALSE,
     read |-> None, remote |-> 0, data |-> None, wrote |-> FALSE,
     outcome |-> "none", value |-> None, exc |-> ""]

(***************************************************************************)
(* Constructors.                                                           *)
(***************************************************************************)
\* YahooFinanceImporter.__init__(cache_dir)
Importer_init(cache_dir) ==
    /\ inst[YFI] = NoDir
    /\ LET dir == IF cache_dir = NoneArg THEN "cache" ELSE cache_dir
       IN  /\ inst' = [inst EXCEPT ![YFI] = dir]
           /\ dirs' = dirs \cup {dir}
           /\ last' = Call(YFI, "__init__", <<cache_dir>>, NoPath, FALSE, FALSE, 0,
                           "none", FALSE, "returned", None, "")
    /\ UNCHANGED <<files, origin, calls>>

\* YahooFinanceSource.__init__(cache_dir)
YahooSource_init(cache_dir) ==
    /\ inst[YFS] = NoDir
    /\ inst' = [inst EXCEPT ![YFS] = cache_dir]
    /\ dirs' = dirs \cup {cache_dir}
    /\ last' = Call(YFS, "__init__", <<cache_dir>>, NoPath, FALSE, FALSE, 0,
                    "none", FALSE, "returned", None, "")
    /\ UNCHANGED <<files, origin, calls>>

\* variant of KeyAbsent: `api_key is None`, which lets the empty key pass
KeyAbsent_only_None(api_key) == api_key = NoneArg

\* `not api_key`
KeyAbsent(api_key) == api_key = NoneArg \/ api_key = ""

\* AlphaVantageSource.__init__(api_key, cache_dir)
AlphaVantage_init(api_key, cache_dir) ==
    /\ inst[AVS] = NoDir
    /\ IF KeyAbsent(api_key)
       THEN /\ last' = Call(AVS, "__init__", <<api_key, cache_dir>>, NoPath, FALSE,
                            FALSE, 0, "none", FALSE, "raised", None, "MissingCredential")
            /\ UNCHANGED <<inst, dirs, calls>>
       ELSE /\ inst' = [inst EXCEPT ![AVS] = cache_dir]
            /\ dirs' = dirs \cup {cache_dir}
            /\ last' = Call(AVS, "__init__", <<api_key, cache_dir>>, NoPath, FALSE,
                            FALSE, 0, "none", FALSE, "returned", None, "")
    /\ UNCHANGED <<files, origin, calls>>

(***************************************************************************)
(* YahooFinanceImporter.                                                   *)
(***************************************************************************)
\* variant of FlattenColumns: the MultiIndex header is kept as the provider
\* sent it
FlattenColumns_skipped(data) == data

\* importer.py 82-84: a MultiIndex header is replaced by its first level
FlattenColumns(data) ==
    IF data.cols = "multi" THEN [data EXCEPT !.cols = "provider_names"] ELSE data

\* variant of Importer_rejects: the check for an empty result is missing
Importer_rejects_nothing(data) == FALSE

\* importer.py 75: `if data.empty: raise ValueError`
Importer_rejects(data) == IsEmptyFrame(data)

Importer_get_data(ticker, start_date, end_date) ==
    /\ inst[YFI] # NoDir
    /\ LET args == <<ticker, start_date, end_date>>
           cache_path == CachePath(YFI, PriceFileName(ticker, start_date, end_date))
       IN  IF Exists(cache_path)
           THEN CacheHit(YFI, "get_data", args, cache_path, ReadCsv(files[cache_path]))
           ELSE \E resp \in YfDownload(ticker, start_date, end_date) :
                   IF resp = Raised
                   THEN MissRaised(YFI, "get_data", args, cache_path, "raised", "ProviderError")
                   ELSE IF Importer_rejects(resp)
                   THEN MissRaised(YFI, "get_data", args, cache_path, "empty", "NotFound")
                   ELSE LET data == FlattenColumns(resp)
                        IN  MissStored(YFI, "get_data", args, cache_path, ToCsv(data), data)

\* importer.py 118-120: what get_fundamentals does with an exception of the
\* remote call: the value it returns, or Raised when it lets it propagate
Importer_fundamentals_failed == EmptyDict

Importer_get_fundamentals(ticker) ==
    /\ inst[YFI] # NoDir
    /\ LET cache_path == CachePath(YFI, FundamentalsFileName(ticker))
       IN  IF Exists(cache_path)
           THEN CacheHit(YFI, "get_fundamentals", <<ticker>>, cache_path,
                         PickleLoad(files[cache_path]))
           ELSE \E resp \in YfInfo(ticker) :
                   IF resp = Raised
                   THEN IF Importer_fundamentals_failed = Raised
                        THEN MissRaised(YFI, "get_fundamentals", <<ticker>>, cache_path,
                                        "raised", "ProviderError")
                        ELSE MissReturned(YFI, "get_fundamentals", <<ticker>>, cache_path,
                                          TRUE, "raised", Importer_fundamentals_failed)
                   ELSE MissStored(YFI, "get_fundamentals", <<ticker>>, cache_path,
                                   PickleDump(resp), resp)

\* variant of OptionExpirationDates: the dates are cached like an option chain
OptionExpirationDates_cached(a, ticker) ==
    /\ inst[a] # NoDir
    /\ LET cache_path == CachePath(a, ticker \o UNDERSCORE \o OPTION \o EXT_PKL)
       IN  IF Exists(cache_path)
           THEN CacheHit(a, "get_option_expiration_dates", <<ticker>>, cache_path,
                         PickleLoad(files[cache_path]))
           ELSE \E resp \in YfOptions(ticker) :
                   IF resp = Raised
                   THEN MissReturned(a, "get_option_expiration_dates", <<ticker>>,
                                     cache_path, TRUE, "raised", EmptyTuple)
                   ELSE MissStored(a, "get_option_expiration_dates", <<ticker>>,
                                   cache_path, PickleDump(resp), resp)

\* get_option_expiration_dates of both Yahoo classes: no cache file is involved
OptionExpirationDates(a, ticker) ==
    /\ inst[a] # NoDir
    /\ \E resp \in YfOptions(ticker) :
          IF resp = Raised
          THEN MissReturned(a, "get_option_expiration_dates", <<ticker>>, NoPath,
                            FALSE, "raised", EmptyTuple)
          ELSE MissReturned(a, "get_option_expiration_dates", <<ticker>>, NoPath,
                            FALSE, "data", resp)

Importer_get_option_expiration_dates(ticker) == OptionExpirationDates(YFI, ticker)

\* the dict {'calls': ..., 'puts': ...} built from the provider's chain
DataToCache(chain) ==
    [kind |-> "dict", of |-> "calls_puts", ticker |-> chain.ticker,
     expiration |-> chain.expiration]

\* get_option_chain of both Yahoo classes
OptionChain(a, ticker, expiration_date) ==
    /\ inst[a] # NoDir
    /\ LET args == <<ticker, expiration_date>>
           cache_path == CachePath(a, OptionFileName(ticker, expiration_date))
       IN  IF Exists(cache_path)
           THEN CacheHit(a, "get_option_chain", args, cache_path,
                         PickleLoad(files[cache_path]))
           ELSE \E resp \in YfOptionChain(ticker, expiration_date) :
                   IF resp = Raised
                   THEN MissReturned(a, "get_option_chain", args, cache_path, TRUE,
                                     "raised", None)
                   ELSE MissStored(a, "get_option_chain", args, cache_path,
                                   PickleDump(DataToCache(resp)), DataToCache(resp))

Importer_get_option_chain(ticker, expiration_date) ==
    OptionChain(YFI, ticker, expiration_date)

\* the files os.listdir(self.cache_dir) names
Listdir(a) == {p \in DOMAIN files : p[1] = inst[a]}

\* the sets of files for which os.remove may raise during one clear_cache()
Unremovable(names) == {bad \in SUBSET names : Cardinality(bad) <= MaxUnremovable}

\* The sets of files one run of the loop of clear_cache may remove when
\* os.remove raises for the files of bad.  The loop stands inside the try, so
\* the first os.remove that raises ends it, and os.listdir gives the names in
\* any order: every file is removed when no removal fails, and otherwise
\* any set of the files that come before the first failing one.
Removable(names, bad) ==
    IF bad = {} THEN {names} ELSE SUBSET (names \ bad)

\* clear_cache of the three classes: files_deleted is printed, the exception
\* is printed, and the method returns None either way
ClearCache(a) ==
    /\ inst[a] # NoDir
    /\ \E bad \in Unremovable(Listdir(a)) :
          \E gone \in Removable(Listdir(a), bad) :
             /\ files' = RemoveFrom(files, gone)
             /\ origin' = RemoveFrom(origin, gone)
             /\ last' = [Call(a, "clear_cache", <<>>, NoPath, FALSE, FALSE, 0, "none",
                              FALSE, "returned", None, "")
                             EXCEPT !.deleted = Cardinality(gone),
                                    !.failed = (bad # {}),
                                    !.unremovable = bad]
    /\ UNCHANGED <<inst, dirs, calls>>

Importer_clear_cache == ClearCache(YFI)

(***************************************************************************)
(* YahooFinanceSource.                                                     *)
(***************************************************************************)
\* sources.py 39-41: the columns are renamed to the standard list
StandardColumns(data) == [data EXCEPT !.cols = "standard_columns"]

\* sources.py 36: `if data.empty: raise ValueError`
YahooSource_rejects(data) == IsEmptyFrame(data)

YahooSource_get_historical_data(ticker, start_date, end_date) ==
    /\ inst[YFS] # NoDir
    /\ LET args == <<ticker, start_date, end_date>>
           cache_path == CachePath(YFS, PriceFileName(ticker, start_date, end_date))
       IN  IF Exists(cache_path)
           THEN CacheHit(YFS, "get_historical_data", args, cache_path,
                         ReadCsv(files[cache_path]))
           ELSE \E resp \in YfDownload(ticker, start_date, end_date) :
                   IF resp = Raised
                   THEN MissRaised(YFS, "get_historical_data", args, cache_path,
                                   "raised", "ProviderError")
                   ELSE IF YahooSource_rejects(resp)
                   THEN MissRaised(YFS, "get_historical_data", args, cache_path,
                                   "empty", "NotFound")
                   ELSE LET data == StandardColumns(resp)
                        IN  MissStored(YFS, "get_historical_data", args, cache_path,
                                       ToCsv(data), data)

YahooSource_get_fundamentals(ticker) ==
    /\ inst[YFS] # NoDir
    /\ LET cache_path == CachePath(YFS, FundamentalsFileName(ticker))
       IN  IF Exists(cache_path)
           THEN CacheHit(YFS, "get_fundamentals", <<ticker>>, cache_path,
                         PickleLoad(files[cache_path]))
           ELSE \E resp \in YfInfo(ticker) :
                   IF resp = Raised
                   THEN MissRaised(YFS, "get_fundamentals", <<ticker>>, cache_path,
                                   "raised", "ProviderError")
                   ELSE MissStored(YFS, "get_fundamentals", <<ticker>>, cache_path,
                                   PickleDump(resp), resp)

YahooSource_get_option_expiration_dates(ticker) == OptionExpirationDates(YFS, ticker)

YahooSource_get_option_chain(ticker, expiration_date) ==
    OptionChain(YFS, ticker, expiration_date)

YahooSource_clear_cache == ClearCache(YFS)

(***************************************************************************)
(* AlphaVantageSource.                                                     *)
(***************************************************************************)
\* sources.py 138-145: data.rename(columns={...})
RenameColumns(data) == [data EXCEPT !.cols = "renamed"]

\* sources.py 149: data.loc[start_date:end_date] on the rows of data
SliceRows(data, s, e) ==
    IF data.rows = <<>> THEN data
    ELSE LET lo == MaxDate(s, data.rows[1])
             hi == MinDate(e, data.rows[2])
         IN  [data EXCEPT !.rows = IF DateAfter(lo, hi) THEN <<>> ELSE <<lo, hi>>]

\* sources.py 153: `if data.empty: raise ValueError`
AlphaVantage_rejects(data) == IsEmptyFrame(data)

AlphaVantage_get_historical_data(ticker, start_date, end_date) ==
    /\ inst[AVS] # NoDir
    /\ LET args == <<ticker, start_date, end_date>>
           cache_path == CachePath(AVS, AvHistoryFileName(ticker, start_date, end_date))
           s == Strptime(start_date)
           e == Strptime(end_date)
       IN  IF Exists(cache_path)
           THEN CacheHit(AVS, "get_historical_data", args, cache_path,
                         PickleLoad(files[cache_path]))
           ELSE \E resp \in AvDailyAdjusted(ticker) :
                   IF resp = Raised
                   THEN MissRaised(AVS, "get_historical_data", args, cache_path,
                                   "raised", "ProviderError")
                   ELSE IF s = BadDate \/ e = BadDate
                   THEN MissRaised(AVS, "get_historical_data", args, cache_path,
                                   "data", "SliceError")
                   ELSE LET data == SliceRows(RenameColumns(resp), s, e)
                        IN  IF AlphaVantage_rejects(data)
                            THEN MissRaised(AVS, "get_historical_data", args, cache_path,
                                            "empty", "NotFound")
                            ELSE MissStored(AVS, "get_historical_data", args, cache_path,
                                            PickleDump(data), data)

\* sources.py 170: data.T.to_dict()[0]
OverviewDict(data) == [kind |-> "dict", of |-> "overview", ticker |-> data.ticker]

\* sources.py 175-177: what get_fundamentals does with an exception
AlphaVantage_fundamentals_failed == EmptyDict

AlphaVantage_get_fundamentals(ticker) ==
    /\ inst[AVS] # NoDir
    /\ LET cache_path == CachePath(AVS, AvFundamentalsFileName(ticker))
       IN  IF Exists(cache_path)
           THEN CacheHit(AVS, "get_fundamentals", <<ticker>>, cache_path,
                         PickleLoad(files[cache_path]))
           ELSE \E resp \in AvCompanyOverview(ticker) :
                   IF resp = Raised
                   THEN MissReturned(AVS, "get_fundamentals", <<ticker>>, cache_path,
                                     TRUE, "raised", AlphaVantage_fundamentals_failed)
                   ELSE MissStored(AVS, "get_fundamentals", <<ticker>>, cache_path,
                                   PickleDump(OverviewDict(resp)), OverviewDict(resp))

AlphaVantage_clear_cache == ClearCache(AVS)

(***************************************************************************)
(* The specification.                                                      *)
(***************************************************************************)
Init ==
    /\ inst = [a \in Adapters |-> NoDir]
    /\ dirs = {}
    /\ files = NoFiles
    /\ origin = NoFiles
    /\ last = Call("", "none", <<>>, NoPath, FALSE, FALSE, 0, "none", FALSE,
                   "returned", None, "")
    /\ calls = [c \in Callers |-> NoCall]

Next ==
    \/ \E d \in {NoneArg, "cache"} : Importer_init(d)
    \/ YahooSource_init("cache")
    \/ \E k \in ApiKeys : AlphaVantage_init(k, "alpha_vantage_cache")
    \/ \E r \in PriceRequests : Importer_get_data(r[1], r[2], r[3])
    \/ \E t \in Tickers : Importer_get_fundamentals(t)
    \/ \E t \in Tickers : Importer_get_option_expiration_dates(t)
    \/ \E t \in Tickers, x \in Expirations : Importer_get_option_chain(t, x)
    \/ Importer_clear_cache
    \/ \E r \in PriceRequests : YahooSource_get_historical_data(r[1], r[2], r[3])
    \/ \E t \in Tickers : YahooSource_get_fundamentals(t)
    \/ \E t \in Tickers : YahooSource_get_option_expiration_dates(t)
    \/ \E t \in Tickers, x \in Expirations : YahooSource_get_option_chain(t, x)
    \/ YahooSource_clear_cache
    \/ \E r \in AvPriceRequests : AlphaVantage_get_historical_data(r[1], r[2], r[3])
    \/ \E t \in Tickers : AlphaVantage_get_fundamentals(t)
    \/ AlphaVantage_clear_cache

Spec == Init /\ [][Next]_vars

(***************************************************************************)
(* The same program when a process can die while it writes a cache file.   *)
(***************************************************************************)
\* the cache files the get_* methods of adapter a write for some request
\* the provider has data for
WrittenFiles(a) ==
    IF a = AVS
    THEN {AvHistoryFileName(r[1], r[2], r[3]) :
              r \in {q \in AvPriceRequests : AvDailyAdjusted(q[1]) # {Raised}}}
         \cup {AvFundamentalsFileName(t) :
                  t \in {u \in Tickers : AvCompanyOverview(u) # {Raised}}}
    ELSE {PriceFileName(r[1], r[2], r[3]) :
              r \in {q \in PriceRequests :
                        \E d \in YfDownload(q[1], q[2], q[3]) :
                            d # Raised /\ ~IsEmptyFrame(d)}}
         \cup {FundamentalsFileName(t) :
                  t \in {u \in Tickers : YfInfo(u) # {Raised}}}
         \cup {OptionFileName(r[1], r[2]) :
                  r \in {q \in Tickers \X Expirations :
                            YfOptionChain(q[1], q[2]) # {Raised}}}

\* a get_* of adapter a missed, fetched data, opened its cache file for
\* writing, and the process ended before anything was written: the file
\* stays on disk with no content
WriteInterrupted(a, filename) ==
    /\ inst[a] # NoDir
    /\ filename \in WrittenFiles(a)
    /\ LET cache_path == CachePath(a, filename)
       IN  /\ ~Exists(cache_path)
           /\ files' = WriteTo(files, cache_path, EmptyFile)
           /\ origin' = WriteTo(origin, cache_path,
                                [adapter |-> a, op |-> "interrupted", args |-> <<>>,
                                 value |-> None])
           /\ last' = Call(a, "interrupted", <<>>, cache_path, TRUE, FALSE, 1, "data",
                           TRUE, "killed", None, "")
    /\ UNCHANGED <<inst, dirs, calls>>

\* the Yahoo adapters on one directory, without AlphaVantageSource
NextInterrupted ==
    \/ \E d \in {NoneArg, "cache"} : Importer_init(d)
    \/ YahooSource_init("cache")
    \/ \E r \in PriceRequests : Importer_get_data(r[1], r[2], r[3])
    \/ \E t \in Tickers : Importer_get_fundamentals(t)
    \/ \E t \in Tickers, x \in Expirations : Importer_get_option_chain(t, x)
    \/ Importer_clear_cache
    \/ \E r \in PriceRequests : YahooSource_get_historical_data(r[1], r[2], r[3])
    \/ \E t \in Tickers : YahooSource_get_fundamentals(t)
    \/ \E a \in {YFI, YFS} : \E filename \in WrittenFiles(a) : WriteInterrupted(a, filename)

SpecInterrupted == Init /\ [][NextInterrupted]_vars

(***************************************************************************)
(* A YahooFinanceSource and an AlphaVantageSource constructed with the     *)
(* same cache directory.                                                   *)
(***************************************************************************)
NextShared ==
    \/ YahooSource_init("cache")
    \/ \E k \in ApiKeys : AlphaVantage_init(k, "cache")
    \/ \E r \in PriceRequests : YahooSource_get_historical_data(r[1], r[2], r[3])
    \/ \E t \in Tickers : YahooSource_get_fundamentals(t)
    \/ YahooSource_clear_cache
    \/ \E r \in AvPriceRequests : AlphaVantage_get_historical_data(r[1], r[2], r[3])
    \/ \E t \in Tickers : AlphaVantage_get_fundamentals(t)
    \/ AlphaVantage_clear_cache

SpecShared == Init /\ [][NextShared]_vars

(***************************************************************************)
(* Two callers of one YahooFinanceImporter whose get_data and              *)
(* get_fundamentals run concurrently: each statement that touches the      *)
(* file system or the network is one step.                                 *)
(***************************************************************************)
\* (method, arguments) of the concurrent calls
ConcurrentRequests ==
    { <<"get_data", <<ACME, D_2024_01_01, D_2024_01_31>>>>,
      <<"get_fundamentals", <<ACME>>>> }

\* importer.py 63-64, 101: the cache path of a call
PathOf(op, args) ==
    CachePath(YFI, IF op = "get_data"
                   THEN PriceFileName(args[1], args[2], args[3])
                   ELSE FundamentalsFileName(args[1]))

\* what several writers that had the file open together may leave: each
\* writes from the start of the file, so bytes of one can follow the other's
Overlaid == [fmt |-> "overlaid"]

\* what a read of overlaid bytes may return when it does not raise
Garbage == [kind |-> "garbage"]

\* variant of WriteTarget: each caller writes a file of its own next to the
\* cache file and never renames it
WriteTarget_private(c, path) == <<path[1], path[2] \o <<c>>>>

\* importer.py 87, 114: the file that to_csv / open(..., 'wb') writes is the
\* cache file itself
WriteTarget(c, path) == path

\* importer.py 66, 103: os.path.exists(cache_path)
GetExists(c, op, args) ==
    /\ inst[YFI] # NoDir
    /\ calls[c].pc = "idle"
    /\ LET cache_path == PathOf(op, args)
       IN  calls' = [calls EXCEPT ![c] =
                        [NoCall EXCEPT !.pc = IF Exists(cache_path) THEN "read" ELSE "fetch",
                                       !.op = op, !.args = args, !.path = cache_path,
                                       !.found = Exists(cache_path)]]
    /\ UNCHANGED <<inst, dirs, files, origin, last>>

\* a call that ends: how, and with what
Ended(call, outcome, value, exc) ==
    [call EXCEPT !.pc = "done", !.outcome = outcome, !.value = value, !.exc = exc]

\* importer.py 68, 105-106: pd.read_csv(cache_path) / pickle.load(f)
GetRead(c) ==
    /\ calls[c].pc = "read"
    /\ LET call == calls[c]
       IN  IF ~Exists(call.path)
           THEN calls' = [calls EXCEPT ![c] = Ended(call, "raised", None, "FileNotFoundError")]
           ELSE LET content == files[call.path]
                    seen == [call EXCEPT !.read = content]
                IN  IF ~Deserializable(content)
                    THEN calls' = [calls EXCEPT ![c] =
                                      Ended(seen, "raised", None, "DeserializeError")]
                    ELSE IF content = Overlaid
                    THEN \/ calls' = [calls EXCEPT ![c] =
                                         Ended(seen, "raised", None, "DeserializeError")]
                         \/ calls' = [calls EXCEPT ![c] =
                                         Ended(seen, "returned", Garbage, "")]
                    ELSE calls' = [calls EXCEPT ![c] =
                                      Ended(seen, "returned",
                                            IF call.op = "get_data"
                                            THEN ReadCsv(content)
                                            ELSE PickleLoad(content), "")]
    /\ UNCHANGED <<inst, dirs, files, origin, last>>

\* importer.py 71-84, 108-111: the remote call and what follows it up to the
\* write
GetFetch(c) ==
    /\ calls[c].pc = "fetch"
    /\ LET call == [calls[c] EXCEPT !.remote = 1]
       IN  IF call.op = "get_data"
           THEN \E resp \in YfDownload(call.args[1], call.args[2], call.args[3]) :
                   calls' = [calls EXCEPT ![c] =
                       IF resp = Raised
                       THEN Ended(call, "raised", None, "ProviderError")
                       ELSE IF Importer_rejects(resp)
                       THEN Ended(call, "raised", None, "NotFound")
                       ELSE [call EXCEPT !.pc = "open", !.data = FlattenColumns(resp)]]
           ELSE \E resp \in YfInfo(call.args[1]) :
                   calls' = [calls EXCEPT ![c] =
                       IF resp = Raised
                       THEN IF Importer_fundamentals_failed = Raised
                            THEN Ended(call, "raised", None, "ProviderError")
                            ELSE Ended(call, "returned", Importer_fundamentals_failed, "")
                       ELSE [call EXCEPT !.pc = "open", !.data = resp]]
    /\ UNCHANGED <<inst, dirs, files, origin, last>>

\* importer.py 87, 114: to_csv / open(cache_path, 'wb') creates the file, or
\* cuts it to no bytes when it is there
GetOpen(c) ==
    /\ calls[c].pc = "open"
    /\ files' = WriteTo(files, WriteTarget(c, calls[c].path), EmptyFile)
    /\ calls' = [calls EXCEPT ![c].pc = "write"]
    /\ UNCHANGED <<inst, dirs, origin, last>>

\* importer.py 87, 115: the content is written and the file closed; when
\* another writer stored different content since this one opened the file,
\* this content is laid over it
GetWrite(c) ==
    /\ calls[c].pc = "write"
    /\ LET call == calls[c]
           target == WriteTarget(c, call.path)
           mine == IF call.op = "get_data" THEN ToCsv(call.data) ELSE PickleDump(call.data)
           there == IF target \in DOMAIN files THEN files[target] ELSE EmptyFile
       IN  /\ \E content \in (IF there \in {EmptyFile, mine}
                                THEN {mine} ELSE {mine, Overlaid}) :
                 files' = WriteTo(files, target, content)
           /\ origin' = WriteTo(origin, target,
                                [adapter |-> YFI, op |-> call.op, args |-> call.args,
                                 value |-> call.data, writer |-> c])
           /\ calls' = [calls EXCEPT ![c] =
                            Ended([call EXCEPT !.wrote = TRUE], "returned", call.data, "")]
    /\ UNCHANGED <<inst, dirs, last>>

\* the call is over; the caller may call again
GetReturn(c) ==
    /\ calls[c].pc = "done"
    /\ calls' = [calls EXCEPT ![c] = NoCall]
    /\ UNCHANGED <<inst, dirs, files, origin, last>>

\* the importer has been constructed with the default directory
InitConcurrent ==
    /\ inst = [a \in Adapters |-> IF a = YFI THEN "cache" ELSE NoDir]
    /\ dirs = {"cache"}
    /\ files = NoFiles
    /\ origin = NoFiles
    /\ last = Call(YFI, "__init__", <<NoneArg>>, NoPath, FALSE, FALSE, 0, "none",
                   FALSE, "returned", None, "")
    /\ calls = [c \in Callers |-> NoCall]

NextConcurrent ==
    \/ \E c \in Callers, r \in ConcurrentRequests : GetExists(c, r[1], r[2])
    \/ \E c \in Callers : GetRead(c)
    \/ \E c \in Callers : GetFetch(c)
    \/ \E c \in Callers : GetOpen(c)
    \/ \E c \in Callers : GetWrite(c)
    \/ \E c \in Callers : GetReturn(c)

SpecConcurrent == InitConcurrent /\ [][NextConcurrent]_vars

(***************************************************************************)
(* Properties.                                                             *)
(***************************************************************************)
IsHistorical(c) == c.op \in {"get_data", "get_historical_data"}

\* the file of c's key is on disk and was written by the same adapter for the
\* same arguments
StoredBySameRequest(c) ==
    /\ c.path \in DOMAIN origin
    /\ origin[c.path].adapter = c.adapter
    /\ origin[c.path].op = c.op
    /\ origin[c.path].args = c.args

C2_NoStaleHitAfterClear ==
    [][(/\ last.op = "clear_cache"
        /\ last'.adapter = last.adapter
        /\ last'.probed) => (~last'.hit /\ last'.remote = 1)]_vars

\* C3: a historical-data call whose dates _validate_dates rejects raises
\* InvalidRange without a remote call and without touching the cache.
C3_ValidateBeforeFetch ==
    (/\ IsHistorical(last)
     /\ ValidateDates(last.args[2], last.args[3]) # "ok") =>
        /\ last.outcome = "raised"
        /\ last.exc = "InvalidRange"
        /\ last.remote = 0
        /\ ~last.probed
        /\ ~last.wrote

\* C4: a historical-data call for a ticker the provider does not know never
\* returns; whenever the fetch gives no rows the call raises NotFound; and no
\* call returns an empty price series.
C4_UnknownTickerNotFound ==
    IsHistorical(last) =>
        /\ last.args[1] \notin KnownTickers => last.outcome = "raised"
        /\ last.answer = "empty" => (last.outcome = "raised" /\ last.exc = "NotFound")
        /\ last.outcome = "returned" => ~IsEmptyFrame(last.value)

\* C4 witness: a miss for the unknown ticker, answered with no rows, raised
\* NotFound while a cache file of another request is on disk
C4_Witness ==
    /\ IsHistorical(last)
    /\ last.args[1] = ZZZZ
    /\ last.answer = "empty"
    /\ last.exc = "NotFound"
    /\ DOMAIN files # {}

\* C5: get_option_chain for an expiration the ticker does not list raises
\* InvalidExpiration before any I/O.
C5_InvalidExpiration ==
    (/\ last.op = "get_option_chain"
     /\ \A i \in 1..Len(Listed(last.args[1])) : Listed(last.args[1])[i] # last.args[2]) =>
        /\ last.outcome = "raised"
        /\ last.exc = "InvalidExpiration"
        /\ last.remote = 0
        /\ ~last.probed

\* the kind of request an operation serves from the cache
RequestKind(op) ==
    IF op \in {"get_data", "get_historical_data"} THEN "price"
    ELSE IF op = "get_fundamentals" THEN "fundamentals"
    ELSE IF op = "get_option_chain" THEN "option_chain"
    ELSE "uncached"

\* C6: cache keys are injective over requests, so a request is only ever
\* served from a file that a request of the same kind with the same
\* parameters wrote.
C6_KeysInjective ==
    last.hit =>
        /\ RequestKind(origin[last.path].op) = RequestKind(last.op)
        /\ origin[last.path].args = last.args

\* C7: get_fundamentals on a miss whose remote call raises lets a
\* ProviderError reach the caller, in every adapter.
C7_FundamentalsFailureSurfaces ==
    (/\ last.op = "get_fundamentals"
     /\ ~last.hit
     /\ last.answer = "raised") =>
        (last.outcome = "raised" /\ last.exc = "ProviderError")

\* C8: get_option_expiration_dates raises ProviderError when the remote
\* call fails, and returns an empty tuple only when the provider answered
\* with no expirations.
C8_ExpirationsFailureDistinct ==
    last.op = "get_option_expiration_dates" =>
        /\ last.answer = "raised" =>
              (last.outcome = "raised" /\ last.exc = "ProviderError")
        /\ (last.outcome = "returned" /\ last.value = EmptyTuple) =>
              last.answer = "data"

\* C9: constructing AlphaVantageSource with api_key None or '' raises
\* MissingCredential and leaves no instance, no new directory and no file;
\* with any other key it returns and its cache directory exists.
C9_MissingCredentialFailsFast ==
    [][(last'.op = "__init__" /\ last'.adapter = AVS) =>
          IF last'.args[1] \in {NoneArg, ""}
          THEN /\ last'.outcome = "raised"
               /\ last'.exc = "MissingCredential"
               /\ inst' = inst
               /\ dirs' = dirs
               /\ files' = files
          ELSE /\ last'.outcome = "returned"
               /\ inst'[AVS] = last'.args[2]
               /\ last'.args[2] \in dirs']_vars

\* C9 witness: the constructor was given the empty key and raised, and
\* neither an instance nor its cache directory exists
C9_Witness ==
    /\ last.op = "__init__"
    /\ last.adapter = AVS
    /\ last.args[1] = ""
    /\ last.exc = "MissingCredential"
    /\ inst[AVS] = NoDir
    /\ last.args[2] \notin dirs

\* C10: in every step, a file that stays on disk keeps its content, a file
\* leaves the disk only in a clear_cache() of an adapter using its directory,
\* a new file is the cache file of the call just made, which missed, fetched
\* data and returned, and is the only new file; a hit changes no file.
C10_EntryLifecycle ==
    [][/\ \A p \in DOMAIN files :
             IF p \in DOMAIN files'
             THEN files'[p] = files[p]
             ELSE last'.op = "clear_cache" /\ inst[last'.adapter] = p[1]
       /\ \A p \in DOMAIN files' \ DOMAIN files :
             /\ last'.path = p
             /\ RequestKind(last'.op) # "uncached"
             /\ ~last'.hit
             /\ last'.remote = 1
             /\ last'.answer = "data"
             /\ last'.outcome = "returned"
             /\ DOMAIN files' = DOMAIN files \cup {p}
       /\ last'.hit => files' = files]_vars

\* C10 witness: a hit on one file while a second file is on disk
C10_Witness ==
    /\ last.hit
    /\ \E p \in DOMAIN files : p # last.path

\* C11: when clear_cache() has run, the only files left in the adapter's
\* cache directory are the ones whose removal failed: a failing removal does
\* not keep any other entry from being removed.
C11_ClearSkipsOnlyFailures ==
    last.op = "clear_cache" => Listdir(last.adapter) = last.unremovable

\* C12: a get_* that finds its cache file on disk with content that cannot
\* be deserialized does not raise the deserialization error: it makes the
\* remote call, and when the provider gives data it returns and leaves a
\* readable file in place of the corrupt one.
C12_CorruptEntryRefetched ==
    [][(/\ last'.probed
        /\ last'.op # "interrupted"
        /\ Exists(last'.path)
        /\ ~Deserializable(files[last'.path])) =>
          /\ last'.exc # "DeserializeError"
          /\ last'.remote = 1
          /\ last'.answer = "data" =>
                (/\ last'.outcome = "returned"
                 /\ Deserializable(files'[last'.path]))]_vars

\* C13: a clear_cache() removes only files that the adapter it is called on
\* wrote, also when another adapter uses the same cache directory.
C13_ClearOwnEntriesOnly ==
    [][last'.op = "clear_cache" =>
          \A p \in DOMAIN files \ DOMAIN files' :
              origin[p].adapter = last'.adapter]_vars

\* C14: no call ever reads a cache file that a concurrent writer has opened
\* and not yet finished: what a call reads is a complete csv or pickle file.
C14_NoPartialRead ==
    \A c \in Callers :
        calls[c].read = None \/ calls[c].read.fmt \in {"csv", "pkl"}

\* the files of the directory of path whose name starts with its file name
EntriesFor(path) ==
    {p \in DOMAIN files :
        /\ p[1] = path[1]
        /\ Len(p[2]) >= Len(path[2])
        /\ SubSeq(p[2], 1, Len(path[2])) = path[2]}

\* the file content that a finished write of value by method op leaves
Stored(op, value) ==
    IF op = "get_data" THEN ToCsv(value) ELSE PickleDump(value)

\* C15: nothing joins concurrent calls for one key: every call that found
\* no cache file makes its own remote call, whatever the other caller is
\* doing, and when it got data it writes the cache file; a complete file is
\* the one of the write that finished last, and no key has more than one
\* file.
C15_NoInFlightDedup ==
    /\ \A c \in Callers :
          (calls[c].pc = "done" /\ ~calls[c].found) =>
              /\ calls[c].remote = 1
              /\ calls[c].data # None =>
                    (calls[c].wrote /\ Exists(calls[c].path))
    /\ \A r \in ConcurrentRequests :
          Cardinality(EntriesFor(PathOf(r[1], r[2]))) <= 1
    /\ \A p \in DOMAIN files \cap DOMAIN origin :
          files[p].fmt \in {"csv", "pkl"} =>
              files[p] = Stored(origin[p].op, origin[p].value)

\* C15 witness: both callers asked for the same key, both found no file,
\* both fetched and both wrote; the file on disk is the second write
C15_Witness ==
    /\ calls["caller1"].path = calls["caller2"].path
    /\ \A c \in Callers :
          /\ calls[c].pc = "done"
          /\ ~calls[c].found
          /\ calls[c].remote = 1
          /\ calls[c].wrote
    /\ origin[calls["caller1"].path].writer = "caller2"
    /\ files[calls["caller1"].path] =
          Stored(calls["caller2"].op, calls["caller2"].value)

\* C16: the frame that AlphaVantageSource.get_historical_data(ticker,
\* start_date, end_date) returns has no row before start_date and none after
\* end_date, whatever calls came before.
C16_AvRowsWithinRange ==
    (/\ last.adapter = AVS
     /\ last.op = "get_historical_data"
     /\ last.outcome = "returned"
     /\ Strptime(last.args[2]) # BadDate
     /\ Strptime(last.args[3]) # BadDate) =>
        \/ IsEmptyFrame(last.value)
        \/ /\ ~DateAfter(Strptime(last.args[2]), last.value.rows[1])
           /\ ~DateAfter(last.value.rows[2], Strptime(last.args[3]))

\* C17: a call whose remote call raised, or gave no rows for the request,
\* changes no file, leaves no file at its cache path, and the next call of
\* the same method with the same arguments makes a remote call again.
C17_NoNegativeCaching ==
    [][/\ last'.answer \in {"raised", "empty"} =>
             (files' = files /\ ~(last'.path \in DOMAIN files'))
       /\ (/\ last.answer \in {"raised", "empty"}
           /\ last'.adapter = last.adapter
           /\ last'.op = last.op
           /\ last'.args = last.args) =>
             last'.remote = 1]_vars

\* C17 witness: a price request got no rows while other files are cached,
\* and its own cache file does not exist
C17_Witness ==
    /\ last.answer = "empty"
    /\ last.outcome = "raised"
    /\ RequestKind(last.op) = "price"
    /\ ~Exists(last.path)
    /\ files # NoFiles

\* C18: every get_option_expiration_dates makes one remote call, looks for
\* no cache file, reads none, and leaves every file of every cache directory
\* as it was, whether the remote call succeeds or raises.
C18_ExpirationsNeverCached ==
    [][last'.op = "get_option_expiration_dates" =>
          /\ last'.remote = 1
          /\ ~last'.probed
          /\ ~last'.hit
          /\ ~last'.wrote
          /\ files' = files]_vars

\* C18 witness: the expiration dates were fetched, and fetched again with the
\* remote call failing, while the cache directory holds files
C18_Witness ==
    /\ last.op = "get_option_expiration_dates"
    /\ last.answer = "raised"
    /\ last.remote = 1
    /\ \E p \in DOMAIN files : p[1] = inst[last.adapter]

====
